---- MODULE Spec2Model ----
(***************************************************************************)
(* Model of the IntakeToolkit Sublime plugin (iwilldo.py): the global      *)
(* IWillDoList session, its NetworkWorkerThread and                        *)
(* CopiedInfoFetcherFileIOThread workers, the sublime.set_timeout queue    *)
(* that marshals their callbacks onto the editor's main thread, and the    *)
(* text commands that read and write the session.                          *)
(*                                                                         *)
(* Conventions: Python None is 0 for a view and a record of kind "none"    *)
(* for an object.  A text is a sequence of one-character strings; a dict   *)
(* is a function whose DOMAIN is the set of its keys.  The live threads    *)
(* are kept as bags of thread records; the thread IWillDoList              *)
(* ._repeating_thread refers to is the one whose field `recorded' is TRUE. *)
(***************************************************************************)
EXTENDS Integers, Sequences, FiniteSets, Bags, TLC

\* ---------------------------------------------------------------- bounds
MaxViews   == 2   \* views the editor ever has
MaxThreads == 2   \* NetworkWorkerThreads alive at once
MaxScans   == 1   \* CopiedInfoFetcherFileIOThreads alive at once
MaxQueue   == 1   \* callbacks pending in sublime.set_timeout
MaxRestored == 1  \* list views the editor restores before the plugin loads

Views == 1..MaxViews

\* ------------------------------------------------------- data of the run
\* Number of lines update_with_data writes before the first group title:
\* name, clean upstream, last updated, '', merge tool (two lines), '',
\* 'Keyboard shortcuts:', one line per entry of COMMANDS, ''.
NumCommands == 8
HeaderLines == 1 + 1 + 1 + 1 + 2 + 1 + 1 + NumCommands + 1

Username == <<"a">>
RepoRoot == "root"
Shas == {"s1", "s2"}
ErrorSuffix == " (ERROR)"

MkItem(id, name, claimed_by, closed) ==
  [id |-> id, name |-> name, claimed_by |-> claimed_by, closed |-> closed]

\* The list results the remote answers with: each pairs a base commit with
\* one of the group lists.
ListResults ==
  { [kind |-> "list", base_commit |-> "s1",
     groups |-> << [title |-> "g1", items |-> << MkItem(1, <<"x">>, <<>>, FALSE) >>] >>],
    [kind |-> "list", base_commit |-> "s2",
     groups |-> << [title |-> "g1", items |-> << MkItem(1, <<"x">>, <<"a">>, FALSE) >>],
                   [title |-> "g2",
                    items |-> << MkItem(2, <<"y", ErrorSuffix>>, <<"b", " ", "a">>, TRUE) >>] >>] }

ErrorResults ==
  { [kind |-> "error", error |-> e] : e \in { <<"remote error">> } }

ItemResults == { [kind |-> "item"] }

\* What urlopen(...).read().decode() can give for a request: a JSON text
\* (valid, with its value) or a body that is not JSON.
Bodies(method) ==
  { [valid |-> TRUE, value |-> d] :
      d \in (IF method = "GET" THEN ListResults ELSE ItemResults) \cup ErrorResults }
  \cup { [valid |-> FALSE] }

\* Outcome of urlopen: URLError with a reason, or a body.
Responses(method) ==
  { [urlerror |-> TRUE, reason |-> "timeout"] }
  \cup { [urlerror |-> FALSE, body |-> b] : b \in Bodies(method) }

\* ------------------------------------------------------------- variables
VARIABLES
  viewState,            \* per view: "unborn", "open" or "gone" (closed or
                        \* destroyed: buffer_id() == 0)
  isWillDo,             \* per view: settings().has('is_will_do_list_view')
  view,                 \* IWillDoList._view (0 is None)
  initialized,          \* IWillDoList._initialized
  line_to_item_mapping, \* IWillDoList._line_to_item_mapping
  upstream_sha,         \* IWillDoList._upstream_sha
  copied_info_data,     \* IWillDoList._copied_info_data
  threads,              \* bag of the live NetworkWorkerThreads
  scans,                \* bag of the live CopiedInfoFetcherFileIOThreads
  queue,                \* callbacks handed to sublime.set_timeout, FIFO
  events,               \* commands run on views by the last step
  delivered,            \* summary of the callback the last step ran
  server                \* the state of the list the remote serves: the
                        \* fetches read it in SpecStale only, elsewhere
                        \* the remote may answer anything

vars == << viewState, isWillDo, view, initialized, line_to_item_mapping,
           upstream_sha, copied_info_data, threads, scans,
           queue, events, delivered, server >>

NoCallback == [kind |-> "none"]
EmptyDict == [k \in {} |-> 0]

\* ------------------------------------------------------- pure functions
\* re.sub(r' \(ERROR\)$', '', name)
StripError(name) ==
  IF Len(name) > 0 /\ name[Len(name)] = ErrorSuffix
  THEN SubSeq(name, 1, Len(name) - 1)
  ELSE name

\* normalize_path(os.path.join(reporoot, stripped name))
get_item_path(item) == <<RepoRoot>> \o StripError(item.name)

\* text.split(' ')
RECURSIVE Split(_)
Split(text) ==
  IF text = <<>> THEN << <<>> >>
  ELSE IF Head(text) = " " THEN << <<>> >> \o Split(Tail(text))
  ELSE LET r == Split(Tail(text)) IN << <<Head(text)>> \o Head(r) >> \o Tail(r)

\* ' '.join(users)
RECURSIVE Join(_)
Join(users) ==
  IF users = <<>> THEN <<>>
  ELSE IF Len(users) = 1 THEN Head(users)
  ELSE Head(users) \o <<" ">> \o Join(Tail(users))

\* list.remove(x): removes the first occurrence
RECURSIVE RemoveFirst(_, _)
RemoveFirst(s, x) ==
  IF s = <<>> THEN <<>>
  ELSE IF Head(s) = x THEN Tail(s)
  ELSE <<Head(s)>> \o RemoveFirst(Tail(s), x)

\* WillDoListItemToggleClaimCommand._toggle_username_in
toggle_username_in(text) ==
  LET users == IF text = <<>> THEN <<>> ELSE Split(text)
  IN IF \E i \in 1..Len(users) : users[i] = Username
     THEN Join(RemoveFirst(users, Username))
     ELSE Join(Append(users, Username))

\* WillDoListUpdateWithDataCommand.run, the loop over data['groups']: the
\* set of <<line, item>> pairs, the first group's title being on `line'.
RECURSIVE ItemLines(_, _)
ItemLines(groups, line) ==
  IF groups = <<>> THEN {}
  ELSE LET g == Head(groups)
           n == Len(g.items)
       IN { <<line + i, g.items[i]>> : i \in 1..n }
          \cup ItemLines(Tail(groups), line + 1 + n + 1)

\* The line_to_item_mapping the command builds for a list result.
BuildMapping(data) ==
  LET pairs == ItemLines(data.groups, HeaderLines)
  IN [l \in { p[1] : p \in pairs } |-> (CHOOSE p \in pairs : p[1] = l)[2]]

\* What the command writes into the view: the error text, or the list
\* (of which the 'Clean upstream' line is kept).
Shown(data) ==
  IF data.kind = "error" THEN [kind |-> "error", text |-> data.error]
  ELSE [kind |-> "list", text |-> <<"Clean upstream:", data.base_commit>>]

\* update_copied_info_data, the loop building `paths'.
RECURSIVE GroupPaths(_)
GroupPaths(groups) ==
  IF groups = <<>> THEN <<>>
  ELSE [i \in 1..Len(Head(groups).items) |-> get_item_path(Head(groups).items[i])]
       \o GroupPaths(Tail(groups))

\* IWillDoList.get_copied_info_for_item (kind "none" is None)
NoCopied == [kind |-> "none"]
get_copied_info_for_item(cid, item) ==
  LET absolute_path == get_item_path(item)
  IN IF absolute_path \in DOMAIN cid THEN cid[absolute_path] ELSE NoCopied

\* `not copied'
NotCopied(copied) == copied.kind = "none"

\* WillDoListUpdateGutterMarksCommand.run, the if/elif/else of one line: the
\* region lists the line is appended to.
GutterBranchNoElif(copied, sha) ==
  (IF NotCopied(copied) THEN {"files_invalid"} ELSE {})
  \cup (IF ~NotCopied(copied) /\ copied.last_synchronized = sha
        THEN {"files_processed"} ELSE {"files_unprocessed"})

GutterBranch(copied, sha) ==
  IF NotCopied(copied) THEN {"files_invalid"}
  ELSE IF copied.last_synchronized = sha THEN {"files_processed"}
  ELSE {"files_unprocessed"}

\* The three region lists the command hands to view.add_regions.
GutterRegions(mapping, cid, sha) ==
  LET In(name) == { l \in DOMAIN mapping :
                      name \in GutterBranch(get_copied_info_for_item(cid, mapping[l]), sha) }
  IN [files_processed |-> In("files_processed"),
      files_unprocessed |-> In("files_unprocessed"),
      files_invalid |-> In("files_invalid")]

\* IWillDoList.get_items_for_selection: a selection is a sequence of
\* regions, a region the pair of its first and last row.  `lines' is never
\* appended to, so the test `line_nr not in lines' always passes.
RECURSIVE RegionItems(_, _, _)
RegionItems(mapping, a, b) ==
  IF a > b THEN <<>>
  ELSE (IF a \in DOMAIN mapping THEN <<mapping[a]>> ELSE <<>>)
       \o RegionItems(mapping, a + 1, b)

RECURSIVE get_items_for_selection(_, _)
get_items_for_selection(mapping, sel) ==
  IF sel = <<>> THEN <<>>
  ELSE RegionItems(mapping, Head(sel)[1], Head(sel)[2])
       \o get_items_for_selection(mapping, Tail(sel))

\* The selections the user makes: one item row, a range over both groups,
\* two cursors on the same row, a row that holds no item.
Selections ==
  { << <<HeaderLines + 1, HeaderLines + 1>> >>,
    << <<HeaderLines + 1, HeaderLines + 4>> >>,
    << <<HeaderLines + 1, HeaderLines + 1>>, <<HeaderLines + 1, HeaderLines + 1>> >>,
    << <<HeaderLines, HeaderLines>> >> }

\* A CopiedFile object.
CopiedFile(path, last_synchronized) ==
  [kind |-> "copied", last_synchronized |-> last_synchronized, copied_from_path |-> path]

\* The states of the working tree a scan can meet: which paths exist and
\* what CopiedFile.create gives for each, a CopiedFile or None.
PathX == <<RepoRoot, "x">>
PathY == <<RepoRoot, "y">>
DiskStates ==
  { EmptyDict,
    [p \in {PathX} |-> CopiedFile(p, "s1")],
    [p \in {PathX, PathY} |-> CopiedFile(p, IF p = PathX THEN "s2" ELSE "s1")],
    [p \in {PathX, PathY} |-> IF p = PathX THEN CopiedFile(p, "s2") ELSE NoCopied] }

\* CopiedInfoFetcherFileIOThread.run, the loop: an entry for each of the
\* paths that exists.
ScanOf(disk, paths) ==
  [p \in { paths[i] : i \in 1..Len(paths) } \cap DOMAIN disk |-> disk[p]]

ScanResults(paths) == { ScanOf(disk, paths) : disk \in DiskStates }

\* ------------------------------------------------------ session helpers
\* The request of a thread: the URL (0 is API_LATEST_LIST_URL, an item id
\* is API_UPDATE_ITEM_URL % id) and the data (<<>> is None).
ListRequest == [url |-> 0, claimed_by |-> <<>>]
ItemRequest(id, new_claimed_by) == [url |-> id, claimed_by |-> new_claimed_by]

\* NetworkWorkerThread.__init__ followed by start(): the thread is in its
\* first fetch.  `orphan', `stopped_in' and `late' are history fields: orphan
\* is set when on_view_closing detaches the view while the fetch is in
\* flight, stopped_in is where the thread was when stop() was called, late
\* counts the callbacks the thread hands to set_timeout after stop().
NetworkWorkerThread(method, request, callback, repeating) ==
  [kind |-> "thread", method |-> method, request |-> request, callback |-> callback,
   repeating |-> repeating, stop |-> FALSE, pc |-> "fetch", recorded |-> FALSE,
   orphan |-> FALSE, stopped_in |-> "", late |-> 0]

One(x) == SetToBag({x})
Replace(bag, old, new) == (bag (-) One(old)) (+) One(new)

\* IWillDoList._repeating_thread, as the set of the threads it refers to
\* (empty: None).
repeating_thread(ths) == { th \in BagToSet(ths) : th.recorded }

\* NetworkWorkerThread.stop() on th, which _repeating_thread then lets go
\* of.  A thread that has died of an exception is no longer live.
StopForgotten(ths, th) == Replace(ths, th, [th EXCEPT !.recorded = FALSE])

Stop(ths, th) ==
  IF th.pc = "dead" THEN ths (-) One(th)
  ELSE Replace(ths, th, [th EXCEPT !.stop = TRUE, !.recorded = FALSE,
                                   !.stopped_in = th.pc])

\* IWillDoList._stop_repeating_thread_if_started
stop_repeating_thread_if_started(ths) ==
  IF repeating_thread(ths) # {}
  THEN Stop(ths, CHOOSE th \in repeating_thread(ths) : TRUE)
  ELSE ths

\* The list fetches in flight when the view is detached get `orphan'.
RECURSIVE MarkOrphans(_)
MarkOrphans(ths) ==
  IF \E th \in BagToSet(ths) : th.pc = "fetch" /\ th.method = "GET" /\ ~th.orphan
  THEN LET th == CHOOSE x \in BagToSet(ths) :
                   x.pc = "fetch" /\ x.method = "GET" /\ ~x.orphan
       IN MarkOrphans(Replace(ths, th, [th EXCEPT !.orphan = TRUE]))
  ELSE ths

\* IWillDoList.on_view_closing(v) on the session <<_view, threads>>.
on_view_closing_keeps_thread(vw, ths, v) ==
  IF vw # 0 /\ vw = v
  THEN [view |-> 0, threads |-> MarkOrphans(ths)]
  ELSE [view |-> vw, threads |-> ths]

on_view_closing(vw, ths, v) ==
  IF vw # 0 /\ vw = v
  THEN [view |-> 0, threads |-> MarkOrphans(stop_repeating_thread_if_started(ths))]
  ELSE [view |-> vw, threads |-> ths]

\* self._view.buffer_id() == 0
BufferGone(vs, v) == vs[v] = "gone"

\* IWillDoList.trigger_update, the liveness check; vs is the views' states.
LivenessChecked(vw, ths, vs) ==
  IF vw # 0 /\ BufferGone(vs, vw)
  THEN on_view_closing(vw, ths, vw)
  ELSE [view |-> vw, threads |-> ths]

\* trigger_update starts a thread when a live view is attached: the model
\* lets it run only when there is room for one.
trigger_update_enabled(vw, ths, vs) ==
  LivenessChecked(vw, ths, vs).view # 0 => BagCardinality(ths) < MaxThreads

\* IWillDoList.trigger_update(repeating)
trigger_update_keeps_old(vw, ths, vs, repeating) ==
  LET s == LivenessChecked(vw, ths, vs)
      thread == NetworkWorkerThread("GET", ListRequest, "on_data_fetched", repeating)
      old == repeating_thread(s.threads)
      forgotten == IF old = {} THEN s.threads
                   ELSE StopForgotten(s.threads, CHOOSE th \in old : TRUE)
  IN IF s.view # 0
     THEN IF repeating
          THEN [view |-> s.view,
                threads |-> forgotten (+) One([thread EXCEPT !.recorded = TRUE])]
          ELSE [view |-> s.view, threads |-> s.threads (+) One(thread)]
     ELSE s

trigger_update(vw, ths, vs, repeating) ==
  LET s == LivenessChecked(vw, ths, vs)
      thread == NetworkWorkerThread("GET", ListRequest, "on_data_fetched", repeating)
  IN IF s.view # 0
     THEN IF repeating
          THEN [view |-> s.view,
                threads |-> stop_repeating_thread_if_started(s.threads)
                            (+) One([thread EXCEPT !.recorded = TRUE])]
          ELSE [view |-> s.view, threads |-> s.threads (+) One(thread)]
     ELSE s

\* ------------------------------------------------------------------ Init
Init ==
  /\ \E restored \in 0..MaxRestored :
       viewState = [v \in Views |-> IF v <= restored THEN "open" ELSE "unborn"]
  /\ isWillDo = [v \in Views |-> viewState[v] = "open"]
  /\ view = 0
  /\ initialized = FALSE
  /\ line_to_item_mapping = EmptyDict
  /\ upstream_sha = ""
  /\ copied_info_data = EmptyDict
  /\ threads = EmptyBag
  /\ scans = EmptyBag
  /\ queue = <<>>
  /\ events = <<>>
  /\ delivered = NoCallback
  /\ server = 1

\* --------------------------------------------------- consumer operations
\* WillDoListStartUpdateIntervalCommand.run on view v: initialize(v), then
\* trigger_update(repeating=True).
StartUpdateInterval(v, vs) ==
  /\ trigger_update_enabled(v, threads, vs)
  /\ LET s == trigger_update(v, threads, vs, TRUE)
     IN /\ view' = s.view
        /\ threads' = s.threads
  /\ viewState' = vs
  /\ isWillDo' = [isWillDo EXCEPT ![v] = TRUE]
  /\ initialized' = TRUE
  /\ events' = <<>>
  /\ delivered' = NoCallback
  /\ UNCHANGED << server, line_to_item_mapping, upstream_sha, copied_info_data, scans,
                  queue >>

\* The command run directly on an open view.
WillDoListStartUpdateIntervalCommand(v) ==
  /\ viewState[v] = "open"
  /\ StartUpdateInterval(v, viewState)

\* EventObserver.on_activated
OnActivated(v) ==
  /\ viewState[v] = "open"
  /\ isWillDo[v] /\ view = 0
  /\ StartUpdateInterval(v, viewState)

\* WillDoListShowCommand.run with the preferences set and no view attached:
\* focus an inactive list view (which activates it), else open a new one.
\* With a view attached it only focuses that view.
WillDoListShowCommand ==
  /\ view = 0
  /\ IF \E v \in Views : viewState[v] = "open" /\ isWillDo[v]
     THEN LET v == CHOOSE w \in Views :
                     /\ viewState[w] = "open" /\ isWillDo[w]
                     /\ \A u \in Views : u < w => ~(viewState[u] = "open" /\ isWillDo[u])
          IN StartUpdateInterval(v, viewState)
     ELSE /\ \E v \in Views : viewState[v] = "unborn"
          /\ LET v == CHOOSE w \in Views :
                        /\ viewState[w] = "unborn"
                        /\ \A u \in Views : u < w => viewState[u] # "unborn"
             IN StartUpdateInterval(v, [viewState EXCEPT ![v] = "open"])

\* EventObserver.on_pre_close: the view closes after the handler.
OnPreClose(v) ==
  /\ viewState[v] = "open"
  /\ LET s == on_view_closing(view, threads, v)
     IN /\ view' = s.view
        /\ threads' = s.threads
  /\ viewState' = [viewState EXCEPT ![v] = "gone"]
  /\ events' = <<>>
  /\ delivered' = NoCallback
  /\ UNCHANGED << server, isWillDo, initialized, line_to_item_mapping, upstream_sha,
                  copied_info_data, scans, queue >>

\* The view is destroyed without on_pre_close (its window is closed): from
\* now on buffer_id() is 0.
DestroyView(v) ==
  /\ viewState[v] = "open"
  /\ viewState' = [viewState EXCEPT ![v] = "gone"]
  /\ events' = <<>>
  /\ delivered' = NoCallback
  /\ UNCHANGED << server, isWillDo, view, initialized, line_to_item_mapping, upstream_sha,
                  copied_info_data, threads, scans, queue >>

\* IWillDoList.make_request: a one-shot thread.
make_request(ths, request, method, callback) ==
  ths (+) One(NetworkWorkerThread(method, request, callback, FALSE))

\* WillDoListItemToggleClaimCommand.run, the loop over the selected items.
RECURSIVE StartPatches(_, _)
StartPatches(ths, items) ==
  IF items = <<>> THEN ths
  ELSE StartPatches(
         make_request(ths, ItemRequest(Head(items).id,
                                       toggle_username_in(Head(items).claimed_by)),
                      "PATCH", "_on_claim_updated"),
         Tail(items))

\* The mapping with the claim of the selected items already toggled.
OptimisticMapping(mapping, sel) ==
  LET items == get_items_for_selection(mapping, sel)
      ids == { items[i].id : i \in 1..Len(items) }
  IN [l \in DOMAIN mapping |->
        IF mapping[l].id \in ids
        THEN [mapping[l] EXCEPT !.claimed_by = toggle_username_in(@)]
        ELSE mapping[l]]

ToggleClaim(sel, mappingAfter) ==
  LET items == get_items_for_selection(line_to_item_mapping, sel)
  IN /\ \E v \in Views : viewState[v] = "open"
     /\ BagCardinality(threads) + Len(items) <= MaxThreads
     /\ threads' = StartPatches(threads, items)
     /\ line_to_item_mapping' = mappingAfter
     /\ events' = <<>>
     /\ delivered' = NoCallback
     /\ UNCHANGED << server, viewState, isWillDo, view, initialized, upstream_sha,
                     copied_info_data, scans, queue >>

WillDoListItemToggleClaimOptimistic(sel) ==
  ToggleClaim(sel, OptimisticMapping(line_to_item_mapping, sel))

\* WillDoListItemToggleClaimCommand.run with selection sel.
WillDoListItemToggleClaimCommand(sel) ==
  ToggleClaim(sel, line_to_item_mapping)

\* What `delivered' keeps of a text command run with selection sel.
Command(name, sel) == [kind |-> "command", command |-> name, sel |-> sel]

\* fixup_upstream_path on a path given by its components:
\* replace(reporoot + '/', ''), the 'chromium/src/' prefix if it is not
\* there, then reporoot in front.
fixup_upstream_path(path) ==
  LET n == Len(path)
      kept == { i \in 1..n : ~(path[i] = RepoRoot /\ i < n) }
      RECURSIVE Pick(_)
      Pick(i) == IF i > n THEN <<>>
                 ELSE (IF i \in kept THEN <<path[i]>> ELSE <<>>) \o Pick(i + 1)
      rel == Pick(1)
      inside == Len(rel) > 2 /\ rel[1] = "chromium" /\ rel[2] = "src"
  IN <<RepoRoot>> \o (IF inside THEN rel ELSE <<"chromium", "src">> \o rel)

\* What a process run to its end leaves: its standard output and its exit
\* code.
ProcessResults ==
  { [stdout |-> out, returncode |-> rc] : out \in { <<>>, <<"diff">> }, rc \in {0, 1, 2} }

\* A str, or None.
Str(text) == [kind |-> "str", text |-> text]
None == [kind |-> "none"]

\* run_process(command, working_dir) with dont_block False: the pair
\* (str(output, "utf-8") if output else None, process.returncode).
run_process(result) ==
  [output |-> IF result.stdout # <<>> THEN Str(result.stdout) ELSE None,
   returncode |-> result.returncode]

OpenFileEvent(path) == [cmd |-> "open_file", path |-> path]
\* `result' is how the process ends (its output is not read with dont_block).
RunProcessEvent(command, dont_block, result) ==
  [cmd |-> "run_process", command |-> command, dont_block |-> dont_block,
   result |-> result]
NewFileEvent(name, content) ==
  [cmd |-> "new_file", name |-> name, content |-> content]

\* WillDoListItemOpenUpstreamCommand.run, the body of the loop for one item
\* whose copied info is `info'.
OpenUpstreamFallsBack(item, info) ==
  IF ~NotCopied(info)
  THEN << OpenFileEvent(fixup_upstream_path(info.copied_from_path)) >>
  ELSE << OpenFileEvent(get_item_path(item)) >>

OpenUpstream(item, info) ==
  IF ~NotCopied(info)
  THEN << OpenFileEvent(fixup_upstream_path(info.copied_from_path)) >>
  ELSE <<>>

\* WillDoListItemDiffCommand.run: `if returncode != 1: output = 'No changes''
DiffContentOnZero(r) == IF r.returncode # 0 THEN Str(<<"No changes">>) ELSE r.output

DiffContent(r) == IF r.returncode # 1 THEN Str(<<"No changes">>) ELSE r.output

\* WillDoListItemDiffCommand.run, the body of the loop for one item: git
\* diff is run to its end with `result', then a view named after the command
\* gets the content.
Diff(item, copied_info, sha, result) ==
  IF ~NotCopied(copied_info)
  THEN LET command == [program |-> "git diff --exit-code",
                       range |-> <<copied_info.last_synchronized, sha>>,
                       path |-> fixup_upstream_path(copied_info.copied_from_path)]
       IN << RunProcessEvent(command, FALSE, result),
             NewFileEvent(command, DiffContent(run_process(result))) >>
  ELSE <<>>

\* WillDoListItemCompareCommand.run, the body of the loop for one item.
Compare(item, copied_info) ==
  IF ~NotCopied(copied_info)
  THEN << RunProcessEvent([program |-> "mergetool",
                           local |-> get_item_path(item),
                           upstream |-> fixup_upstream_path(copied_info.copied_from_path)],
                          TRUE, None) >>
  ELSE <<>>

\* What the rounds of a loop `for item in ...' do, one after the other.
RECURSIVE Rounds(_)
Rounds(effects) ==
  IF effects = <<>> THEN <<>> ELSE Head(effects) \o Rounds(Tail(effects))

\* A text command that leaves the session alone, run on an open view.
ItemCommand(name, sel, effects) ==
  /\ \E v \in Views : viewState[v] = "open"
  /\ events' = effects
  /\ delivered' = Command(name, sel)
  /\ UNCHANGED << server, viewState, isWillDo, view, initialized, line_to_item_mapping,
                  upstream_sha, copied_info_data, threads, scans, queue >>

\* WillDoListItemOpenUpstreamCommand.run with selection sel.
WillDoListItemOpenUpstreamCommand(sel) ==
  LET items == get_items_for_selection(line_to_item_mapping, sel)
  IN ItemCommand("will_do_list_item_open_upstream", sel,
       Rounds([i \in 1..Len(items) |->
                 OpenUpstream(items[i],
                              get_copied_info_for_item(copied_info_data, items[i]))]))

\* WillDoListItemDiffCommand.run with selection sel; results[i] is how the
\* i-th git diff ends.
WillDoListItemDiffCommand(sel) ==
  LET items == get_items_for_selection(line_to_item_mapping, sel)
  IN \E results \in [1..Len(items) -> ProcessResults] :
       ItemCommand("will_do_list_item_diff", sel,
         Rounds([i \in 1..Len(items) |->
                   Diff(items[i], get_copied_info_for_item(copied_info_data, items[i]),
                        upstream_sha, results[i])]))

\* WillDoListItemCompareCommand.run with selection sel.
WillDoListItemCompareCommand(sel) ==
  LET items == get_items_for_selection(line_to_item_mapping, sel)
  IN ItemCommand("will_do_list_item_compare", sel,
       Rounds([i \in 1..Len(items) |->
                 Compare(items[i],
                         get_copied_info_for_item(copied_info_data, items[i]))]))

SetLastSyncEvent(path, sha) == [cmd |-> "set_last_sync", path |-> path, sha |-> sha]

\* WillDoListItemUpdateShaCommand.run, the body of the loop for one item:
\* the CopiedFile of the item's path writes the marker.
UpdateShaAlways(item, copied_info, sha) ==
  << SetLastSyncEvent(get_item_path(item), sha) >>

UpdateSha(item, copied_info, sha) ==
  IF ~NotCopied(copied_info)
  THEN << SetLastSyncEvent(get_item_path(item), sha) >>
  ELSE <<>>

\* WillDoListItemUpdateShaCommand.run with selection sel: the loop, then
\* trigger_update().
WillDoListItemUpdateShaCommand(sel) ==
  LET items == get_items_for_selection(line_to_item_mapping, sel)
  IN /\ \E v \in Views : viewState[v] = "open"
     /\ trigger_update_enabled(view, threads, viewState)
     /\ LET s == trigger_update(view, threads, viewState, FALSE)
        IN /\ view' = s.view
           /\ threads' = s.threads
     /\ events' = Rounds([i \in 1..Len(items) |->
                            UpdateSha(items[i],
                                      get_copied_info_for_item(copied_info_data, items[i]),
                                      upstream_sha)])
     /\ delivered' = Command("will_do_list_item_update_sha", sel)
     /\ UNCHANGED << server, viewState, isWillDo, initialized, line_to_item_mapping,
                     upstream_sha, copied_info_data, scans, queue >>

\* ----------------------------------------------------------- the workers
\* NetworkWorkerThread._fetch_url: the text handed to json.loads.
fetch_url(resp) ==
  IF resp.urlerror
  THEN [valid |-> TRUE,
        value |-> [kind |-> "error", error |-> <<"Failed retrieving data.", resp.reason>>]]
  ELSE resp.body

Callback(name, data, orphan) ==
  [kind |-> "callback", callback |-> name, data |-> data, orphan |-> orphan]

\* NetworkWorkerThread.run from the fetch to the sleep: json.loads raises on
\* a body that is not JSON and the thread dies (it stays in the bag while
\* _repeating_thread refers to it); otherwise the callback is handed to
\* sublime.set_timeout and a one-shot thread ends.
FetchDone(th, resp) ==
  /\ th \in BagToSet(threads) /\ th.pc = "fetch"
  /\ resp \in Responses(th.method)
  /\ LET text == fetch_url(resp)
     IN IF ~text.valid
        THEN /\ threads' = IF th.recorded
                           THEN Replace(threads, th, [th EXCEPT !.pc = "dead", !.orphan = FALSE])
                           ELSE threads (-) One(th)
             /\ queue' = queue
        ELSE /\ Len(queue) < MaxQueue
             /\ queue' = Append(queue, Callback(th.callback, text.value, th.orphan))
             /\ threads' = IF th.repeating
                           THEN Replace(threads, th,
                                        [th EXCEPT !.pc = "sleep", !.orphan = FALSE,
                                                   !.late = @ + (IF th.stop THEN 1 ELSE 0)])
                           ELSE threads (-) One(th)
  /\ events' = <<>>
  /\ delivered' = NoCallback
  /\ UNCHANGED << server, viewState, isWillDo, view, initialized, line_to_item_mapping,
                  upstream_sha, copied_info_data, scans >>

\* `if not self._repeating or self._stop_event.is_set(): break'
LoopBreaksIgnoringStop(th) == ~th.repeating

LoopBreaks(th) == ~th.repeating \/ th.stop

\* NetworkWorkerThread.run after sleep(CHECK_INTERVAL_SEC): leave the loop
\* or begin the next cycle.
SleepDone(th) ==
  /\ th \in BagToSet(threads) /\ th.pc = "sleep"
  /\ threads' = IF LoopBreaks(th) THEN threads (-) One(th)
                ELSE Replace(threads, th, [th EXCEPT !.pc = "fetch"])
  /\ events' = <<>>
  /\ delivered' = NoCallback
  /\ UNCHANGED << server, viewState, isWillDo, view, initialized, line_to_item_mapping,
                  upstream_sha, copied_info_data, scans, queue >>

\* CopiedInfoFetcherFileIOThread.__init__ followed by start().  `listed' is
\* a history field: whether the on_data_fetched that started the scan ran
\* the update command for its list.
CopiedInfoFetcherFileIOThread(file_paths, orphan, listed) ==
  [kind |-> "scan", file_paths |-> file_paths, orphan |-> orphan, listed |-> listed]

\* The callback of a scan, with the scan's history.
ScanCallback(sc, data) ==
  [kind |-> "callback", callback |-> "_on_copied_info_updated", data |-> data,
   orphan |-> sc.orphan, listed |-> sc.listed]

\* The end of CopiedInfoFetcherFileIOThread.run with the dict `data': the
\* callback is handed to sublime.set_timeout ("set_timeout"); the other ways
\* are to call it in the thread ("call") and to die before it ("raise").
ScanEnds(sc, data, how) ==
  /\ sc \in BagToSet(scans)
  /\ data \in ScanResults(sc.file_paths)
  /\ CASE how = "set_timeout" ->
            /\ Len(queue) < MaxQueue
            /\ queue' = Append(queue, ScanCallback(sc, data))
            /\ UNCHANGED copied_info_data
       [] how = "call" ->
            /\ copied_info_data' = data
            /\ UNCHANGED queue
       [] how = "raise" -> UNCHANGED << queue, copied_info_data >>
  /\ scans' = scans (-) One(sc)
  /\ events' = <<>>
  /\ delivered' = NoCallback
  /\ UNCHANGED << server, viewState, isWillDo, view, initialized, line_to_item_mapping,
                  upstream_sha, threads >>

\* CopiedInfoFetcherFileIOThread.run
ScanDoneCallsBack(sc, data) == ScanEnds(sc, data, "call")

ScanDoneRaisesOnGap(sc, data) ==
  ScanEnds(sc, data,
           IF \A i \in 1..Len(sc.file_paths) :
                sc.file_paths[i] \in DOMAIN data /\ ~NotCopied(data[sc.file_paths[i]])
           THEN "set_timeout" ELSE "raise")

ScanDone(sc, data) == ScanEnds(sc, data, "set_timeout")

\* ------------------------------------------- callbacks on the main thread
\* WillDoListUpdateWithDataCommand.run: what it leaves in the session.
UpdateWithDataResetsOnError(mapping, sha, data) ==
  IF data.kind = "error"
  THEN [line_to_item_mapping |-> EmptyDict, upstream_sha |-> sha]
  ELSE [line_to_item_mapping |-> BuildMapping(data), upstream_sha |-> data.base_commit]

UpdateWithData(mapping, sha, data) ==
  IF data.kind = "error"
  THEN [line_to_item_mapping |-> mapping, upstream_sha |-> sha]
  ELSE [line_to_item_mapping |-> BuildMapping(data), upstream_sha |-> data.base_commit]

UpdateWithDataEvent(vw, data) ==
  [cmd |-> "will_do_list_update_with_data", view |-> vw, shown |-> Shown(data)]

GutterMarksEvent(vw, regions) ==
  [cmd |-> "will_do_list_update_gutter_marks", view |-> vw, regions |-> regions]

\* What `delivered' keeps of a callback.
Summary(cb) ==
  [kind |-> "callback", callback |-> cb.callback, orphan |-> cb.orphan,
   error |-> (cb.callback # "_on_copied_info_updated" /\ cb.data.kind = "error"),
   listed |-> (cb.callback = "_on_copied_info_updated" /\ cb.listed)]

\* `if self._view:' of update_view_with_data and _on_copied_info_updated.
\* A view that is gone but still attached passes the test: run_command is
\* called on it like on a live one.
RunsCommandAlways(vw) == TRUE

RunsCommand(vw) == vw # 0

\* update_copied_info_data raises KeyError on data['groups'] for an error
\* result, before any thread is made.
StartsScan(data) == data.kind # "error"

PathsOf(data) == IF data.kind = "list" THEN GroupPaths(data.groups) ELSE <<>>

\* IWillDoList.on_data_fetched: update_view_with_data, then
\* update_copied_info_data, which the model lets start a scan while fewer
\* than maxScans are alive.
OnDataFetchedUpTo(maxScans) ==
  /\ queue # <<>>
  /\ Head(queue).callback = "on_data_fetched"
  /\ LET cb == Head(queue)
         data == cb.data
         u == UpdateWithData(line_to_item_mapping, upstream_sha, data)
     IN /\ IF RunsCommand(view)
           THEN /\ line_to_item_mapping' = u.line_to_item_mapping
                /\ upstream_sha' = u.upstream_sha
                /\ events' = << UpdateWithDataEvent(view, data) >>
           ELSE /\ UNCHANGED << line_to_item_mapping, upstream_sha >>
                /\ events' = <<>>
        /\ IF StartsScan(data)
           THEN /\ BagCardinality(scans) < maxScans
                /\ scans' = scans (+) One(CopiedInfoFetcherFileIOThread(
                                            PathsOf(data), cb.orphan, RunsCommand(view)))
           ELSE scans' = scans
        /\ delivered' = Summary(cb)
  /\ queue' = Tail(queue)
  /\ UNCHANGED << server, viewState, isWillDo, view, initialized, copied_info_data, threads >>

OnDataFetched == OnDataFetchedUpTo(MaxScans)

\* WillDoListItemToggleClaimCommand._on_claim_updated
OnClaimUpdated ==
  /\ queue # <<>>
  /\ Head(queue).callback = "_on_claim_updated"
  /\ trigger_update_enabled(view, threads, viewState)
  /\ LET s == trigger_update(view, threads, viewState, FALSE)
     IN /\ view' = s.view
        /\ threads' = s.threads
  /\ queue' = Tail(queue)
  /\ events' = <<>>
  /\ delivered' = Summary(Head(queue))
  /\ UNCHANGED << server, viewState, isWillDo, initialized, line_to_item_mapping,
                  upstream_sha, copied_info_data, scans >>

\* `self._copied_info_data = data'
AssignMerged(old, data) ==
  [p \in DOMAIN old \cup DOMAIN data |-> IF p \in DOMAIN data THEN data[p] ELSE old[p]]

Assign(old, data) == data

\* IWillDoList._on_copied_info_updated
OnCopiedInfoUpdated ==
  /\ queue # <<>>
  /\ Head(queue).callback = "_on_copied_info_updated"
  /\ copied_info_data' = Assign(copied_info_data, Head(queue).data)
  /\ IF RunsCommand(view)
     THEN events' = << GutterMarksEvent(view,
                         GutterRegions(line_to_item_mapping, copied_info_data',
                                       upstream_sha)) >>
     ELSE events' = <<>>
  /\ queue' = Tail(queue)
  /\ delivered' = Summary(Head(queue))
  /\ UNCHANGED << server, viewState, isWillDo, view, initialized, line_to_item_mapping,
                  upstream_sha, threads, scans >>

\* ------------------------------------------------------------------ Next
Next ==
  \/ WillDoListShowCommand
  \/ \E v \in Views : WillDoListStartUpdateIntervalCommand(v)
  \/ \E v \in Views : OnActivated(v)
  \/ \E v \in Views : OnPreClose(v)
  \/ \E v \in Views : DestroyView(v)
  \/ \E sel \in Selections : WillDoListItemToggleClaimCommand(sel)
  \/ \E th \in BagToSet(threads) : \E resp \in Responses(th.method) : FetchDone(th, resp)
  \/ \E th \in BagToSet(threads) : SleepDone(th)
  \/ \E sc \in BagToSet(scans) : \E data \in ScanResults(sc.file_paths) : ScanDone(sc, data)
  \/ OnDataFetched
  \/ OnClaimUpdated
  \/ OnCopiedInfoUpdated

Spec == Init /\ [][Next]_vars

\* ------------------------------------------- one list view that stays open
\* The session after will_do_list_show has opened view 1, which is then
\* left alone while the repeating thread fetches list after list and the
\* scans of up to MaxRacingScans of them run side by side.
MaxRacingScans == 2

InitScans ==
  /\ viewState = [v \in Views |-> IF v = 1 THEN "open" ELSE "unborn"]
  /\ isWillDo = [v \in Views |-> v = 1]
  /\ view = 1
  /\ initialized = TRUE
  /\ line_to_item_mapping = EmptyDict
  /\ upstream_sha = ""
  /\ copied_info_data = EmptyDict
  /\ threads = One([NetworkWorkerThread("GET", ListRequest, "on_data_fetched", TRUE)
                      EXCEPT !.recorded = TRUE])
  /\ scans = EmptyBag
  /\ queue = <<>>
  /\ events = <<>>
  /\ delivered = NoCallback
  /\ server = 1

NextScans ==
  \/ \E th \in BagToSet(threads) : \E resp \in Responses(th.method) : FetchDone(th, resp)
  \/ \E th \in BagToSet(threads) : SleepDone(th)
  \/ \E sc \in BagToSet(scans) : \E data \in ScanResults(sc.file_paths) : ScanDone(sc, data)
  \/ OnDataFetchedUpTo(MaxRacingScans)
  \/ OnCopiedInfoUpdated

SpecScans == InitScans /\ [][NextScans]_vars

\* ------------------------------------------------- the update-sha command
\* The list views opened, activated and closed, the workers and their
\* callbacks, and the update-sha command run on what is selected.
NextUpdateSha ==
  \/ WillDoListShowCommand
  \/ \E v \in Views : OnActivated(v)
  \/ \E v \in Views : OnPreClose(v)
  \/ \E sel \in Selections : WillDoListItemUpdateShaCommand(sel)
  \/ \E th \in BagToSet(threads) : \E resp \in Responses(th.method) : FetchDone(th, resp)
  \/ \E th \in BagToSet(threads) : SleepDone(th)
  \/ \E sc \in BagToSet(scans) : \E data \in ScanResults(sc.file_paths) : ScanDone(sc, data)
  \/ OnDataFetched
  \/ OnCopiedInfoUpdated

SpecUpdateSha == Init /\ [][NextUpdateSha]_vars

\* ------------------------------------------------ the commands on a list
\* The claimed_by texts of up to MaxText characters.
MaxText == 3
Texts == UNION { [1..n -> {"a", "b", " "}] : n \in 0..MaxText }

\* The lists on show when the user runs a command: those of ListResults and
\* the one-item lists of every claimed_by text.
ShownLists ==
  ListResults \cup
  { [kind |-> "list", base_commit |-> "s1",
     groups |-> << [title |-> "g1", items |-> << MkItem(1, <<"x">>, t, FALSE) >>] >>] :
    t \in Texts }

\* The session with a list applied and its scan delivered, the view either
\* attached (the repeating thread asleep) or closed again.
InitCommands ==
  \E data \in ShownLists : \E attached \in BOOLEAN :
    /\ viewState = [v \in Views |-> IF v = 1 THEN (IF attached THEN "open" ELSE "gone")
                                    ELSE (IF attached THEN "unborn" ELSE "open")]
    /\ isWillDo = [v \in Views |-> viewState[v] # "unborn"]
    /\ view = IF attached THEN 1 ELSE 0
    /\ initialized = TRUE
    /\ line_to_item_mapping = BuildMapping(data)
    /\ upstream_sha = data.base_commit
    /\ copied_info_data \in ScanResults(PathsOf(data))
    /\ threads = IF attached
                 THEN One([NetworkWorkerThread("GET", ListRequest, "on_data_fetched", TRUE)
                             EXCEPT !.recorded = TRUE, !.pc = "sleep"])
                 ELSE EmptyBag
    /\ scans = EmptyBag
    /\ queue = <<>>
    /\ events = <<>>
    /\ delivered = NoCallback
  /\ server = 1

NextCommands ==
  \/ \E sel \in Selections : WillDoListItemToggleClaimCommand(sel)
  \/ \E sel \in Selections : WillDoListItemOpenUpstreamCommand(sel)
  \/ \E sel \in Selections : WillDoListItemDiffCommand(sel)
  \/ \E sel \in Selections : WillDoListItemCompareCommand(sel)

SpecCommands == InitCommands /\ [][NextCommands]_vars

\* --------------------------------------------- the fetches and the remote
\* The remote's list changes while the plugin runs: Version numbers its
\* states by the base commit of the list served in each, and a fetch is two
\* steps of its thread, the read of what the remote serves at that moment
\* and the hand-over of the callback, with other threads free to run in
\* between.  View 1 stays open and the remote answers every request.
Version(sha) == IF sha = "s1" THEN 1 ELSE IF sha = "s2" THEN 2 ELSE 0

ServerStates == { Version(d.base_commit) : d \in ListResults }

ServedList(n) == CHOOSE d \in ListResults : Version(d.base_commit) = n

\* The remote's list moves on to its next state.
ServerMoves ==
  /\ server + 1 \in ServerStates
  /\ server' = server + 1
  /\ events' = <<>>
  /\ delivered' = NoCallback
  /\ UNCHANGED << viewState, isWillDo, view, initialized, line_to_item_mapping,
                  upstream_sha, copied_info_data, threads, scans, queue >>

\* The thread between `urlopen(url).read()' and json.loads: it holds the
\* body it has read.
Loaded(th, body) ==
  [f \in DOMAIN th \cup {"body"} |->
     IF f = "body" THEN body ELSE IF f = "pc" THEN "loaded" ELSE th[f]]

\* The thread once the callback is handed over: asleep, the body let go.
Asleep(th) ==
  [f \in DOMAIN th \ {"body"} |->
     IF f = "pc" THEN "sleep"
     ELSE IF f = "orphan" THEN FALSE
     ELSE IF f = "late" THEN th.late + (IF th.stop THEN 1 ELSE 0)
     ELSE th[f]]

\* NetworkWorkerThread._fetch_url returns: the thread has read what the
\* remote serves now.
FetchUrlReturns(th) ==
  /\ th \in BagToSet(threads) /\ th.pc = "fetch"
  /\ threads' = Replace(threads, th,
                        Loaded(th, IF th.method = "GET" THEN ServedList(server)
                                   ELSE CHOOSE d \in ItemResults : TRUE))
  /\ events' = <<>>
  /\ delivered' = NoCallback
  /\ UNCHANGED << server, viewState, isWillDo, view, initialized,
                  line_to_item_mapping, upstream_sha, copied_info_data, scans, queue >>

\* NetworkWorkerThread.run from json.loads to the sleep: the callback with
\* the body read earlier is handed to sublime.set_timeout, and a one-shot
\* thread ends.
HandsOver(th) ==
  /\ th \in BagToSet(threads) /\ th.pc = "loaded"
  /\ Len(queue) < MaxQueue
  /\ queue' = Append(queue, Callback(th.callback, th.body, th.orphan))
  /\ threads' = IF th.repeating THEN Replace(threads, th, Asleep(th))
                ELSE threads (-) One(th)
  /\ events' = <<>>
  /\ delivered' = NoCallback
  /\ UNCHANGED << server, viewState, isWillDo, view, initialized,
                  line_to_item_mapping, upstream_sha, copied_info_data, scans >>

NextStale ==
  \/ ServerMoves
  \/ \E sel \in Selections : WillDoListItemToggleClaimCommand(sel)
  \/ \E th \in BagToSet(threads) : FetchUrlReturns(th)
  \/ \E th \in BagToSet(threads) : HandsOver(th)
  \/ \E th \in BagToSet(threads) : SleepDone(th)
  \/ \E sc \in BagToSet(scans) : \E data \in ScanResults(sc.file_paths) : ScanDone(sc, data)
  \/ OnDataFetched
  \/ OnClaimUpdated
  \/ OnCopiedInfoUpdated

SpecStale == InitScans /\ [][NextStale]_vars

\* --------------------------------------------- the list left unattended
\* The session after will_do_list_show has opened view 1, with no user at
\* the keyboard any more: the view may be destroyed without on_pre_close
\* (its window closes), and nothing else happens than the threads running
\* and Sublime running the callbacks handed to set_timeout.  Started threads
\* get to run and queued callbacks get run, hence the weak fairness.
NextUnattended ==
  \/ \E v \in Views : DestroyView(v)
  \/ \E th \in BagToSet(threads) : \E resp \in Responses(th.method) : FetchDone(th, resp)
  \/ \E th \in BagToSet(threads) : SleepDone(th)
  \/ \E sc \in BagToSet(scans) : \E data \in ScanResults(sc.file_paths) : ScanDone(sc, data)
  \/ OnDataFetched
  \/ OnCopiedInfoUpdated

SpecUnattended ==
  /\ InitScans
  /\ [][NextUnattended]_vars
  /\ WF_vars(\E th \in BagToSet(threads) : \E resp \in Responses(th.method) : FetchDone(th, resp))
  /\ WF_vars(\E th \in BagToSet(threads) : SleepDone(th))
  /\ WF_vars(\E sc \in BagToSet(scans) : \E data \in ScanResults(sc.file_paths) : ScanDone(sc, data))
  /\ WF_vars(OnDataFetched)
  /\ WF_vars(OnCopiedInfoUpdated)

\* ================================================================ claims
\* Number of threads of the bag that satisfy P.
Count(ths, P(_)) ==
  LET S == { th \in BagToSet(ths) : P(th) }
      sum[T \in SUBSET S] ==
        IF T = {} THEN 0
        ELSE LET x == CHOOSE y \in T : TRUE IN CopiesIn(x, ths) + sum[T \ {x}]
  IN sum[S]

\* The step runs the callback at the head of the set_timeout queue.
Delivery == queue # <<>> /\ queue' = Tail(queue)

\* C1 as stated: the callback of a list fetch that was in flight when
\* on_view_closing detached the view, and the callback of the scan it
\* started, run no command on any view.
C1_NoEventAfterDetach ==
  (delivered.kind = "callback" /\ delivered.orphan) => events = <<>>

\* C1 amended: such a callback runs no command on any view as long as no
\* view has been attached again (_view is None when it is delivered); the
\* commands it runs otherwise are run on the view attached by then.
C1_NoEventWhileDetached ==
  (delivered.kind = "callback" /\ delivered.orphan) =>
    /\ view = 0 => events = <<>>
    /\ \A i \in 1..Len(events) : events[i].view = view /\ view # 0

\* A scan started by an orphaned fetch has completed while no view is
\* attached.
C1_Witness ==
  /\ delivered.kind = "callback" /\ delivered.orphan
  /\ delivered.callback = "_on_copied_info_updated"
  /\ view = 0 /\ events = <<>>

\* C2: while no view is attached, the delivery of a callback leaves the
\* mapping, the upstream marker and the copied-info cache unchanged and
\* starts no worker.
C2_DetachedDeliveryChangesNothing ==
  [][(view = 0 /\ Delivery) =>
       /\ line_to_item_mapping' = line_to_item_mapping
       /\ upstream_sha' = upstream_sha
       /\ copied_info_data' = copied_info_data
       /\ scans' = scans
       /\ threads' = threads]_vars

\* C3: the repeating threads whose stop event is unset are exactly the one
\* _repeating_thread refers to: one while a view is attached, none
\* otherwise; every other repeating thread has been told to stop.
C3_AtMostOneRepeating ==
  /\ Count(threads, LAMBDA th : th.repeating /\ ~th.stop) = (IF view # 0 THEN 1 ELSE 0)
  /\ \A th \in BagToSet(threads) : (th.repeating /\ ~th.stop) <=> th.recorded

\* A repeating poll has been started while another was running: the old
\* thread is stopped and still live, the new one is not stopped.
C3_Witness ==
  \E a, b \in BagToSet(threads) :
    /\ a.repeating /\ a.stop
    /\ b.repeating /\ ~b.stop

\* C4: once stop() has been called on a repeating thread it begins no new
\* fetch cycle (it is fetching only if it was when stopped) and hands at most
\* one more callback to set_timeout, the one of the fetch that was in flight
\* when it was stopped.
C4_StoppedIsTerminal ==
  \A th \in BagToSet(threads) :
    th.stop =>
      /\ th.repeating
      /\ th.late <= 1
      /\ th.pc = "fetch" => (th.stopped_in = "fetch" /\ th.late = 0)
      /\ th.late = 1 => th.stopped_in = "fetch"

\* A thread stopped during a fetch has handed over that fetch's callback.
C4_Witness ==
  \E th \in BagToSet(threads) : th.stop /\ th.late = 1 /\ th.pc = "sleep"

\* A repeating task is running: _repeating_thread refers to a thread that
\* has not died.
RepeatingRunning == \E th \in repeating_thread(threads) : th.pc # "dead"

\* C5 as stated: with a view attached and a repeating task running, no step
\* (the subscribe operation in particular) starts a repeating thread.
C5_NoSecondRepeatingTask ==
  [][(view # 0 /\ RepeatingRunning) =>
       Count(threads', LAMBDA th : th.repeating) <= Count(threads, LAMBDA th : th.repeating)]_vars

\* C5 amended: with a view attached and a repeating task running, a step that
\* starts a repeating thread (the subscribe operation) tells the running one
\* to stop and records the new one: one more repeating thread, one more
\* stopped thread, and exactly one repeating thread with its stop event
\* unset, which is in its first fetch.
C5_ResubscribeReplaces ==
  [][(/\ view # 0 /\ RepeatingRunning
      /\ Count(threads', LAMBDA th : th.repeating) > Count(threads, LAMBDA th : th.repeating)) =>
       /\ view' # 0
       /\ Count(threads', LAMBDA th : th.repeating) = Count(threads, LAMBDA th : th.repeating) + 1
       /\ Count(threads', LAMBDA th : th.stop) = Count(threads, LAMBDA th : th.stop) + 1
       /\ Count(threads', LAMBDA th : th.repeating /\ ~th.stop) = 1
       /\ \A th \in repeating_thread(threads') : th.pc = "fetch" /\ ~th.stop]_vars

\* The only view there ever was is still open and attached, so no
\* on_view_closing has detached anything, and the subscribe operation has
\* run again: a stopped repeating thread lives beside the recorded one.
C5_Witness ==
  /\ view # 0
  /\ \A v \in Views : viewState[v] = "open" <=> v = view
  /\ \A v \in Views : viewState[v] # "gone"
  /\ \E a, b \in BagToSet(threads) : a.repeating /\ a.stop /\ b.recorded

\* C6: the delivery of a list callback whose data carries 'error' leaves the
\* mapping, the upstream marker and the copied-info cache unchanged, starts
\* no scan, and with a view attached runs will_do_list_update_with_data on
\* it showing exactly the error text.
C6_ErrorLeavesState ==
  [][(/\ Delivery
      /\ Head(queue).callback = "on_data_fetched"
      /\ Head(queue).data.kind = "error") =>
       /\ line_to_item_mapping' = line_to_item_mapping
       /\ upstream_sha' = upstream_sha
       /\ copied_info_data' = copied_info_data
       /\ scans' = scans
       /\ view # 0 =>
            events' = << [cmd |-> "will_do_list_update_with_data", view |-> view,
                          shown |-> [kind |-> "error", text |-> Head(queue).data.error]] >>]_vars

\* An error has been shown on the attached view while a list is cached.
C6_Witness ==
  /\ delivered.kind = "callback" /\ delivered.callback = "on_data_fetched"
  /\ delivered.error
  /\ events # <<>>
  /\ line_to_item_mapping # EmptyDict /\ copied_info_data # EmptyDict

\* C7: a repeating thread that has not been told to stop never ends: no
\* outcome of a fetch kills it.
C7_NoFetchFailureIsFatal ==
  \A th \in BagToSet(threads) : (th.repeating /\ ~th.stop) => th.pc # "dead"

\* C8: while the attached view is gone (buffer_id() == 0) no repeating thread
\* begins a fetch cycle.
C8_NoCycleForDeadView ==
  [][(view # 0 /\ BufferGone(viewState, view)) =>
       \A th \in BagToSet(threads) :
         (th.repeating /\ th.pc = "sleep") =>
           CopiesIn([th EXCEPT !.pc = "fetch"], threads')
             <= CopiesIn([th EXCEPT !.pc = "fetch"], threads)]_vars

\* The step starts a PATCH thread (the claim-toggle command has run).
PatchStarted ==
  Count(threads', LAMBDA th : th.method = "PATCH") > Count(threads, LAMBDA th : th.method = "PATCH")

\* The step runs _on_claim_updated.
ClaimDelivery == Delivery /\ Head(queue).callback = "_on_claim_updated"

\* The step starts a one-shot list fetch.
RefetchStarted ==
  Count(threads', LAMBDA th : th.method = "GET" /\ ~th.repeating)
    > Count(threads, LAMBDA th : th.method = "GET" /\ ~th.repeating)

\* C9 as stated: the claim toggle leaves the mapping unchanged and starts no
\* list fetch, and _on_claim_updated starts the list re-fetch only when the
\* PATCH was acknowledged (its result is not an error).
C9_RefetchOnlyWhenAcknowledged ==
  [][/\ PatchStarted => (line_to_item_mapping' = line_to_item_mapping /\ ~RefetchStarted)
     /\ (ClaimDelivery /\ RefetchStarted) => Head(queue).data.kind = "item"]_vars

\* C9 amended: the claim toggle leaves the mapping unchanged, starts no list
\* fetch and sends, per selected item, a PATCH whose value is the item's
\* claimed_by toggled; _on_claim_updated leaves the mapping unchanged too and
\* starts the one-shot list re-fetch whatever the PATCH's result, exactly
\* when a live view is attached.
C9_ToggleNeverMutates ==
  [][/\ PatchStarted =>
          /\ line_to_item_mapping' = line_to_item_mapping
          /\ ~RefetchStarted
          /\ queue' = queue
          /\ \A th \in BagToSet(threads') :
               (th.method = "PATCH" /\ CopiesIn(th, threads') > CopiesIn(th, threads)) =>
                 \E l \in DOMAIN line_to_item_mapping :
                   /\ line_to_item_mapping[l].id = th.request.url
                   /\ th.request.claimed_by
                        = toggle_username_in(line_to_item_mapping[l].claimed_by)
     /\ ClaimDelivery =>
          /\ line_to_item_mapping' = line_to_item_mapping
          /\ RefetchStarted <=> (view # 0 /\ ~BufferGone(viewState, view))]_vars

\* _on_claim_updated has run for a PATCH that failed, and the list re-fetch
\* it started is in flight.
C9_Witness ==
  /\ delivered.kind = "callback" /\ delivered.callback = "_on_claim_updated"
  /\ delivered.error
  /\ line_to_item_mapping # EmptyDict
  /\ \E th \in BagToSet(threads) : th.method = "GET" /\ ~th.repeating /\ th.pc = "fetch"

\* C10: the three region lists will_do_list_update_gutter_marks builds
\* partition the lines of the mapping: a line is in files_invalid exactly when
\* the cache has no entry for its item's path, in files_processed exactly
\* when the entry's last_synchronized is the upstream marker, in
\* files_unprocessed otherwise, and in no two of them.
C10_ClassificationPartitions ==
  \A i \in 1..Len(events) :
    events[i].cmd = "will_do_list_update_gutter_marks" =>
      LET r == events[i].regions
          HasInfo(l) ==
            /\ get_item_path(line_to_item_mapping[l]) \in DOMAIN copied_info_data
            /\ copied_info_data[get_item_path(line_to_item_mapping[l])].kind = "copied"
          Synced(l) == copied_info_data[get_item_path(line_to_item_mapping[l])].last_synchronized
                         = upstream_sha
      IN /\ r.files_invalid \cup r.files_processed \cup r.files_unprocessed
              = DOMAIN line_to_item_mapping
         /\ r.files_invalid \cap r.files_processed = {}
         /\ r.files_invalid \cap r.files_unprocessed = {}
         /\ r.files_processed \cap r.files_unprocessed = {}
         /\ \A l \in DOMAIN line_to_item_mapping :
              /\ l \in r.files_invalid <=> ~HasInfo(l)
              /\ l \in r.files_processed <=> (HasInfo(l) /\ Synced(l))
              /\ l \in r.files_unprocessed <=> (HasInfo(l) /\ ~Synced(l))

\* The gutter marks of a list of two items have been computed, one of them
\* without an entry in the cache, the other not synchronized.
C10_Witness ==
  \E i \in 1..Len(events) :
    /\ events[i].cmd = "will_do_list_update_gutter_marks"
    /\ events[i].regions.files_invalid # {}
    /\ events[i].regions.files_unprocessed # {}


\* The identities of a space-joined list, and whether Username is one.
Identities(text) == IF text = <<>> THEN <<>> ELSE Split(text)
Claims(text) == \E i \in 1..Len(Identities(text)) : Identities(text)[i] = Username

\* C11: the claimed_by a toggle sends for an item does not contain the
\* user's identity when the item's list did, and is the item's list followed
\* by the identity when it did not.
C11_ToggleRemovesOrAppends ==
  \A th \in BagToSet(threads) : \A l \in DOMAIN line_to_item_mapping :
    (th.method = "PATCH" /\ th.request.url = line_to_item_mapping[l].id) =>
      LET before == line_to_item_mapping[l].claimed_by
          after == th.request.claimed_by
      IN /\ Claims(before) => ~Claims(after)
         /\ ~Claims(before) =>
              after = (IF before = <<>> THEN Username ELSE before \o <<" ">> \o Username)

\* The PATCH threads of the bag that update item id.
PatchesFor(ths, id) ==
  Count(ths, LAMBDA th : th.method = "PATCH" /\ th.request.url = id)

\* The rows of the mapping that the regions of the selection cover.
SelectedRows(sel) ==
  { l \in DOMAIN line_to_item_mapping :
      \E i \in 1..Len(sel) : sel[i][1] <= l /\ l <= sel[i][2] }

\* C12: a command acts on the item of a selected row at most once, and only
\* on items of rows of the mapping: no step starts a second PATCH for the
\* same item, or a PATCH for an item the mapping does not hold, and
\* open-upstream opens no more files than rows are selected.
C12_EachRowOnce ==
  [][/\ (delivered'.kind = "command"
          /\ delivered'.command = "will_do_list_item_open_upstream") =>
          Len(events') <= Cardinality(SelectedRows(delivered'.sel))
     /\ \A l \in DOMAIN line_to_item_mapping :
          PatchesFor(threads', line_to_item_mapping[l].id)
            <= PatchesFor(threads, line_to_item_mapping[l].id) + 1
     /\ \A th \in BagToSet(threads') :
          (th.method = "PATCH" /\ CopiesIn(th, threads') > CopiesIn(th, threads)) =>
            \E l \in DOMAIN line_to_item_mapping :
              line_to_item_mapping[l].id = th.request.url]_vars

\* The commands that need the upstream file of an item.
UpstreamCommands ==
  { "will_do_list_item_open_upstream", "will_do_list_item_diff",
    "will_do_list_item_compare" }

\* The item's path has an entry in the metadata cache that holds metadata.
HasMetadata(cid, item) ==
  get_item_path(item) \in DOMAIN cid /\ cid[get_item_path(item)].kind = "copied"

\* The items the selection resolves to, and how many of them have metadata.
Selected(sel) == get_items_for_selection(line_to_item_mapping, sel)
NumWithMetadata(sel) ==
  Cardinality({ i \in 1..Len(Selected(sel)) :
                  HasMetadata(copied_info_data, Selected(sel)[i]) })

\* The events that open a file or launch a process.
Launches(evs) ==
  Cardinality({ i \in 1..Len(evs) : evs[i].cmd \in {"open_file", "run_process"} })

\* C13: open-upstream, diff and compare open or launch one thing for each
\* selected item that has metadata and nothing for an item that has none
\* (with no such item in the selection, nothing happens at all), and they
\* change no session state.
C13_NoMetadataNoAction ==
  [][(delivered'.kind = "command" /\ delivered'.command \in UpstreamCommands) =>
       /\ UNCHANGED << view, initialized, line_to_item_mapping, upstream_sha,
                       copied_info_data, threads, scans, queue >>
       /\ Launches(events') = NumWithMetadata(delivered'.sel)
       /\ NumWithMetadata(delivered'.sel) = 0 => events' = <<>>]_vars

\* A diff has been run on a selection of which one item has metadata and
\* another has none.
C13_Witness ==
  /\ delivered.kind = "command" /\ delivered.command = "will_do_list_item_diff"
  /\ NumWithMetadata(delivered.sel) = 1
  /\ Len(Selected(delivered.sel)) = 2
  /\ Launches(events) = 1

\* The git diff runs among the events: each is followed by the view that
\* shows its outcome.
DiffRuns(evs) ==
  { i \in 1..Len(evs) : evs[i].cmd = "run_process" /\ ~evs[i].dont_block }

\* C14: the view a diff opens holds the output of git diff as captured
\* (nothing when nothing was captured) exactly when git diff exits with code
\* 1, and the text "No changes" for every other exit code.
C14_DiffOutputOnExitOne ==
  \A i \in DiffRuns(events) :
    /\ i < Len(events) /\ events[i + 1].cmd = "new_file"
    /\ LET result == events[i].result
           content == events[i + 1].content
       IN /\ (result.returncode = 1 /\ result.stdout # <<>>) =>
               content = Str(result.stdout)
          /\ (result.returncode = 1 /\ result.stdout = <<>>) => content = None
          /\ result.returncode # 1 => content = Str(<<"No changes">>)

\* One diff command has shown the output of a git diff that exited with 1
\* and "No changes" for one that exited with 0 after writing output.
C14_Witness ==
  /\ \E i \in DiffRuns(events) :
       /\ events[i].result.returncode = 1
       /\ events[i].result.stdout # <<>>
       /\ events[i + 1].content = Str(events[i].result.stdout)
  /\ \E i \in DiffRuns(events) :
       /\ events[i].result.returncode = 0
       /\ events[i].result.stdout # <<>>
       /\ events[i + 1].content = Str(<<"No changes">>)

\* The last step ran callback name.
Delivered(name) == delivered.kind = "callback" /\ delivered.callback = name

\* C15: the metadata event of a scan comes after the list-updated event of
\* the list the scan was started for: no gutter marks are computed from a
\* scan whose list was never shown.
C15_MetadataAfterListEvent ==
  (Delivered("_on_copied_info_updated") /\ events # <<>>) => delivered.listed

\* The paths of the items of the current snapshot.
SnapshotPaths == { get_item_path(line_to_item_mapping[l]) : l \in DOMAIN line_to_item_mapping }

\* C16: the result of every completed scan replaces the whole metadata
\* cache when its callback runs, in the order the scans completed, whatever
\* snapshot has been applied since the scan was started.
C16_WholesaleReplacement ==
  [][(Delivery /\ Head(queue).callback = "_on_copied_info_updated") =>
       copied_info_data' = Head(queue).data]_vars

\* The scan of a list that was shown has just been applied after a newer
\* snapshot: the cache holds a path the current snapshot does not have.
C16_Witness ==
  /\ Delivered("_on_copied_info_updated") /\ delivered.listed
  /\ \E p \in DOMAIN copied_info_data : p \notin SnapshotPaths
  /\ BagCardinality(scans) > 0

\* The step applies a list result to the attached view.
AppliesSnapshot ==
  /\ Delivery /\ Head(queue).callback = "on_data_fetched"
  /\ Head(queue).data.kind = "list"
  /\ view # 0

\* C17: once a new snapshot is applied, and until the metadata event of its
\* scan, every item of the snapshot classifies as invalid: straight after
\* the snapshot is applied the cache classifies none of its items as
\* processed or unprocessed.
C17_UnclassifiedUntilMetadata ==
  [][AppliesSnapshot =>
       \A l \in DOMAIN line_to_item_mapping' :
         GutterBranch(get_copied_info_for_item(copied_info_data',
                                               line_to_item_mapping'[l]),
                      upstream_sha') = {"files_invalid"}]_vars

\* The one-shot list fetches of the bag.
OneShots(ths) == Count(ths, LAMBDA th : th.method = "GET" /\ ~th.repeating)

\* The step runs the update-sha command.
UpdateShaStep ==
  delivered'.kind = "command" /\ delivered'.command = "will_do_list_item_update_sha"

\* The markers the step writes are those of the selected items that have
\* metadata, each set to the upstream marker.
MarkersOfSelection ==
  /\ Len(events') = NumWithMetadata(delivered'.sel)
  /\ \A i \in 1..Len(events') :
       /\ events'[i].cmd = "set_last_sync" /\ events'[i].sha = upstream_sha
       /\ \E j \in 1..Len(Selected(delivered'.sel)) :
            /\ HasMetadata(copied_info_data, Selected(delivered'.sel)[j])
            /\ events'[i].path = get_item_path(Selected(delivered'.sel)[j])

\* The snapshot and the metadata cache change only in the callbacks of a
\* fetch and of a scan.
ChangeOnlyOnCompletion ==
  /\ (line_to_item_mapping' # line_to_item_mapping \/ upstream_sha' # upstream_sha) =>
       (Delivery /\ Head(queue).callback = "on_data_fetched")
  /\ copied_info_data' # copied_info_data =>
       (Delivery /\ Head(queue).callback = "_on_copied_info_updated")

\* C18 as stated: update-sha writes the marker of the selected items that
\* have metadata and of no other, then starts exactly one one-shot list
\* fetch; it leaves the snapshot and the metadata cache alone, which change
\* only when a fetch or a scan completes.
C18_UpdateShaStartsRefetch ==
  [][/\ UpdateShaStep =>
          /\ MarkersOfSelection
          /\ OneShots(threads') = OneShots(threads) + 1
          /\ UNCHANGED << line_to_item_mapping, upstream_sha, copied_info_data >>
     /\ ChangeOnlyOnCompletion]_vars

\* C18 amended: the one-shot list fetch is started when a live view is
\* attached, and none is started otherwise.
C18_UpdateShaRefetchesWhenAttached ==
  [][/\ UpdateShaStep =>
          /\ MarkersOfSelection
          /\ OneShots(threads') = OneShots(threads) + (IF view' # 0 THEN 1 ELSE 0)
          /\ UNCHANGED << line_to_item_mapping, upstream_sha, copied_info_data >>
     /\ ChangeOnlyOnCompletion]_vars

\* Update-sha has run on two selected items of which one has metadata: one
\* marker is written and the re-fetch is in flight.
C18_Witness ==
  /\ delivered.kind = "command" /\ delivered.command = "will_do_list_item_update_sha"
  /\ Len(Selected(delivered.sel)) = 2
  /\ Len(events) = 1
  /\ \E th \in BagToSet(threads) : th.method = "GET" /\ ~th.repeating /\ th.pc = "fetch"

\* The threads of the bag that are in a fetch, and those that sleep.
Fetching(ths) == Count(ths, LAMBDA th : th.pc = "fetch")
Sleeping(ths) == Count(ths, LAMBDA th : th.pc = "sleep")
Recorded(ths) == Count(ths, LAMBDA th : th.recorded)

\* The step is one of a worker thread: a callback is handed to set_timeout,
\* a fetch or a sleep ends, or a scan ends.  (The main thread starts fetches
\* and scans and takes callbacks off the queue; it ends none of these.)
WorkerStep ==
  \/ Len(queue') > Len(queue)
  \/ Fetching(threads') < Fetching(threads)
  \/ Sleeping(threads') < Sleeping(threads)
  \/ BagCardinality(scans') < BagCardinality(scans)

\* C19: a step of a worker thread writes no field of the session (_view,
\* _repeating_thread, the line-to-item mapping, the upstream marker, the
\* metadata cache) and runs no command on a view: all it does to the main
\* thread is to append one callback to the set_timeout queue.  Every write
\* of a session field is therefore a step of the main thread.
C19_WorkersOnlyEnqueue ==
  [][WorkerStep =>
       /\ UNCHANGED << view, initialized, line_to_item_mapping, upstream_sha,
                       copied_info_data >>
       /\ Recorded(threads') = Recorded(threads)
       /\ events' = <<>>
       /\ \/ queue' = queue
          \/ /\ Len(queue') = Len(queue) + 1
             /\ SubSeq(queue', 1, Len(queue)) = queue]_vars

\* The repeating thread has handed over a list while a scan and a PATCH are
\* under way.
C19_Witness ==
  /\ queue # <<>> /\ Head(queue).callback = "on_data_fetched"
  /\ BagCardinality(scans) = 1
  /\ \E th \in BagToSet(threads) : th.recorded /\ th.pc = "sleep"
  /\ \E th \in BagToSet(threads) : th.method = "PATCH" /\ th.pc = "fetch"

\* C20: a scan that ends hands over one callback with the entries of the
\* paths found on disk, whatever is missing; in the gutter marks computed
\* from it the lines whose path has no entry, or an entry that is None, are
\* the invalid ones.
C20_ScanCompletes ==
  [][/\ BagCardinality(scans') < BagCardinality(scans) =>
          /\ Len(queue') = Len(queue) + 1
          /\ LET cb == queue'[Len(queue')]
             IN /\ cb.callback = "_on_copied_info_updated"
                /\ \E sc \in BagToSet(scans) : \E disk \in DiskStates :
                     /\ CopiesIn(sc, scans') < CopiesIn(sc, scans)
                     /\ cb.data = [p \in { sc.file_paths[i] : i \in 1..Len(sc.file_paths) }
                                           \cap DOMAIN disk |-> disk[p]]
     /\ (Delivery /\ Head(queue).callback = "_on_copied_info_updated" /\ view # 0) =>
          /\ Len(events') = 1
          /\ \A l \in DOMAIN line_to_item_mapping :
               l \in events'[1].regions.files_invalid
                 <=> ~HasMetadata(Head(queue).data, line_to_item_mapping[l])]_vars

\* The gutter marks of a scan for which the collaborator gave no metadata
\* for one path: that line is invalid, the other is classified.
C20_Witness ==
  /\ Delivered("_on_copied_info_updated") /\ Len(events) = 1
  /\ \E l \in DOMAIN line_to_item_mapping :
       /\ get_item_path(line_to_item_mapping[l]) \in DOMAIN copied_info_data
       /\ ~HasMetadata(copied_info_data, line_to_item_mapping[l])
       /\ l \in events[1].regions.files_invalid
  /\ \E l \in DOMAIN line_to_item_mapping :
       l \notin events[1].regions.files_invalid

\* The one-shot threads of the bag.
NonRepeating(ths) == Count(ths, LAMBDA th : ~th.repeating)

\* C21: a one-shot thread is in its only fetch for as long as it lives, never
\* asleep and never told to stop, whatever happens to the repeating thread;
\* when it ends, it has handed exactly one callback, its own, to
\* set_timeout.
C21_OneShotFetchesOnce ==
  [][/\ \A th \in BagToSet(threads') :
          ~th.repeating => (th.pc = "fetch" /\ ~th.stop /\ ~th.recorded)
     /\ NonRepeating(threads') < NonRepeating(threads) =>
          /\ NonRepeating(threads') = NonRepeating(threads) - 1
          /\ Len(queue') = Len(queue) + 1
          /\ \E th \in BagToSet(threads) :
               /\ ~th.repeating /\ CopiesIn(th, threads') < CopiesIn(th, threads)
               /\ queue'[Len(queue')].callback = th.callback]_vars

\* C22: with a repeating fetch and one-shot fetches in flight together, the
\* snapshot on show never goes from one read in a later state of the remote
\* to one read in an earlier state.
C22_NoStaleOverwrite ==
  [][Version(upstream_sha') >= Version(upstream_sha)]_vars

\* C23: whenever _repeating_thread is not None, _view is not None: a thread
\* is recorded only while a view is attached, and whatever clears _view has
\* stopped and let go the recorded thread.
C23_RecordedImpliesView ==
  \A th \in BagToSet(threads) : th.recorded => view # 0

\* The view has been detached while a repeating thread was recorded: the
\* thread, told to stop and let go, is still live.
C23_Witness ==
  /\ view = 0
  /\ \E th \in BagToSet(threads) : th.repeating /\ th.stop /\ ~th.recorded

\* The step is a poll for a dead view: the attached view is gone
\* (buffer_id() == 0) and a repeating thread that was not told to stop ends
\* a fetch by handing its callback to set_timeout.
PollsDeadView ==
  /\ view # 0 /\ BufferGone(viewState, view)
  /\ Len(queue') = Len(queue) + 1
  /\ \E th \in BagToSet(threads) :
       /\ th.repeating /\ ~th.stop /\ th.pc = "fetch"
       /\ CopiesIn(th, threads') < CopiesIn(th, threads)
       /\ queue'[Len(queue')].callback = th.callback

\* C24: once the view is destroyed without on_pre_close and nobody acts, the
\* repeating thread stops polling on its own: from some point on no step is
\* a poll for the dead view.
C24_DeadViewPollingEnds == <>[][~PollsDeadView]_vars

====
